---- MODULE Spec2Model ----
(***************************************************************************)
(* The fakefs preload library (portage/bin/fakefs/preload/fakefs_preload.c) *)
(* as a state machine: the wrapped stat / chown / chmod entry points, the   *)
(* override-marker probe and clear, the backdoor syscalls and the one-time  *)
(* initialisation, over a small file system.                                *)
(***************************************************************************)
EXTENDS Integers, Sequences, FiniteSets, TLC

VARIABLES
    g_init_flag,      \* pthread_once_t: "INIT", "RUNNING" (do_init in
                      \* progress) or "DONE"
    g_verbose,        \* static bool g_verbose
    g_abort_on_slow,  \* static bool g_abort_on_slow
    g_libc,           \* the four g_libc_* pointers: FALSE = NULL, TRUE = resolved
    environ,          \* the process environment read by getenv
    errno,            \* the calling thread's errno
    fds,              \* the process's open file descriptors: fd -> inode
    marker,           \* inode -> presence of user.fakefs.override
    owner,            \* inode -> <<uid, gid>>, the true (kernel) ownership
    aborted,          \* abort() was called
    pc,               \* "idle": no wrapped call in progress; "done": one returned
    last,             \* what the call that just returned did and returned
    threads,          \* the threads of the process: where each is in its
                      \* wrapped call, and the call's locals
    init_runs         \* how many times do_init was entered

vars == <<g_init_flag, g_verbose, g_abort_on_slow, g_libc, environ, errno, fds,
          marker, owner, aborted, pc, last, threads, init_runs>>

(***************************************************************************)
(* Bounds                                                                   *)
(***************************************************************************)
MaxId == 1                 \* uids and gids are 0..MaxId
MaxThread == 2             \* threads are 1..MaxThread

Ids == 0 .. MaxId
Threads == 1 .. MaxThread

(***************************************************************************)
(* Program constants                                                        *)
(***************************************************************************)
AT_FDCWD == -100
AT_SYMLINK_NOFOLLOW == "AT_SYMLINK_NOFOLLOW"
AT_EMPTY_PATH == "AT_EMPTY_PATH"
FAKEFS_BACKDOOR_KEY == 539103495     \* 0x20221107

OK == "OK"
EFAULT == "EFAULT"
ENODATA == "ENODATA"
ENOTSUP == "ENOTSUP"
ENOENT == "ENOENT"
ENOTDIR == "ENOTDIR"
EPERM == "EPERM"
EACCES == "EACCES"
EBADF == "EBADF"
EMFILE == "EMFILE"
EIO == "EIO"

(***************************************************************************)
(* The file system the process runs on.  Inodes are named; a path is a      *)
(* record: null (a NULL pointer), abs (pathname[0] == '/') and the list of  *)
(* components (pathname[0] == '\0' is a non-absolute path with none).       *)
(***************************************************************************)
NONE == "NONE"

Inodes == {"root", "d", "a", "b", "l", "dl", "p", "n",
           "proc", "self", "fddir", "maglink"}

Kind(i) ==
    CASE i \in {"root", "d", "proc", "self"} -> "dir"
      [] i = "fddir" -> "fddir"
      [] i \in {"l", "dl", "maglink"} -> "lnk"
      [] OTHER -> "reg"

\* directory entries: name -> inode
Entries(i) ==
    CASE i = "root" -> [n \in {"a", "l", "dl", "d", "p", "n", "proc"} |->
                          IF n = "proc" THEN "proc" ELSE n]
      [] i = "d" -> [n \in {"a", "p"} |-> IF n = "a" THEN "b" ELSE "p"]
      [] i = "proc" -> [n \in {"self"} |-> "self"]
      [] i = "self" -> [n \in {"fd"} |-> "fddir"]
      [] OTHER -> [n \in {} |-> NONE]

\* what a symbolic link points to (NONE: dangling)
LinkTarget(i) == IF i = "l" THEN "a" ELSE NONE

Readable(i) == i # "p"          \* the caller may read the inode (MAY_READ)
Writable(i) == i # "p"          \* the caller may write the inode (MAY_WRITE)
XattrFs(i) == i \notin {"n", "proc", "self", "fddir", "maglink"}

Cwd == "root"

\* inodes on which the tracer installs its marker in this model
MarkerTargets == {"root", "a", "b"}

NullPath == [null |-> TRUE, abs |-> FALSE, comps |-> <<>>]
Rel(c) == [null |-> FALSE, abs |-> FALSE, comps |-> c]
Abs(c) == [null |-> FALSE, abs |-> TRUE, comps |-> c]
IsEmpty(p) == ~p.abs /\ p.comps = <<>>      \* pathname[0] == '\0'

Found(i) == [err |-> OK, ino |-> i]
Fail(e) == [err |-> e, ino |-> NONE]

\* the fd whose decimal name is n, or the empty set
FdNamed(n, fdt) == {fd \in DOMAIN fdt : ToString(fd) = n}

\* Path walk from directory cur.  A symbolic link is followed unless it is
\* the last component and follow is FALSE.  An entry of /proc/self/fd is a
\* magic link: following it lands on the inode the descriptor refers to.
RECURSIVE Walk(_, _, _, _)
Walk(cur, comps, follow, fdt) ==
    IF comps = <<>> THEN Found(cur)
    ELSE IF Kind(cur) \notin {"dir", "fddir"} THEN Fail(ENOTDIR)
    ELSE LET name == Head(comps)
             rest == Tail(comps)
             islast == rest = <<>>
         IN IF Kind(cur) = "fddir"
            THEN IF FdNamed(name, fdt) = {} THEN Fail(ENOENT)
                 ELSE IF islast /\ ~follow THEN Found("maglink")
                 ELSE Walk(fdt[CHOOSE fd \in FdNamed(name, fdt) : TRUE],
                           rest, follow, fdt)
            ELSE IF name \notin DOMAIN Entries(cur) THEN Fail(ENOENT)
                 ELSE LET child == Entries(cur)[name]
                      IN IF Kind(child) = "lnk" /\ (~islast \/ follow)
                         THEN IF LinkTarget(child) = NONE THEN Fail(ENOENT)
                              ELSE Walk(LinkTarget(child), rest, follow, fdt)
                         ELSE Walk(child, rest, follow, fdt)

\* The kernel's lookup for the *at() calls.
Lookup(dirfd, path, follow, emptyok, fdt) ==
    IF path.null THEN Fail(EFAULT)
    ELSE IF IsEmpty(path)
    THEN IF ~emptyok THEN Fail(ENOENT)
         ELSE IF dirfd = AT_FDCWD THEN Found(Cwd)
         ELSE IF dirfd \in DOMAIN fdt THEN Found(fdt[dirfd])
         ELSE Fail(EBADF)
    ELSE IF path.abs THEN Walk("root", path.comps, follow, fdt)
    ELSE IF dirfd = AT_FDCWD THEN Walk(Cwd, path.comps, follow, fdt)
    ELSE IF dirfd \notin DOMAIN fdt THEN Fail(EBADF)
    ELSE Walk(fdt[dirfd], path.comps, follow, fdt)

\* Reading a user.* attribute of inode i (xattr_permission, then the handler).
XattrGetErr(i, mk) ==
    IF Kind(i) \notin {"reg", "dir"} THEN ENODATA
    ELSE IF ~Readable(i) THEN EACCES
    ELSE IF ~XattrFs(i) THEN ENOTSUP
    ELSE IF mk[i] THEN OK
    ELSE ENODATA

\* Removing a user.* attribute of inode i.
XattrRemoveErr(i, mk) ==
    IF Kind(i) \notin {"reg", "dir"} THEN EPERM
    ELSE IF ~Writable(i) THEN EACCES
    ELSE IF ~XattrFs(i) THEN ENOTSUP
    ELSE IF mk[i] THEN OK
    ELSE ENODATA

(***************************************************************************)
(* The machine state a wrapped call runs on, threaded through the calls it  *)
(* makes: m.errno, m.fds, m.marker, m.owner, whether abort() was reached,   *)
(* the system and library calls made so far (m.log) and the value of errno  *)
(* around each errno-preserving function (m.chk).                           *)
(***************************************************************************)
Ev(name, obj, key) == [ev |-> name, obj |-> obj, key |-> key]
Emit(m, name, obj, key) == [m EXCEPT !.log = Append(@, Ev(name, obj, key))]
SetErr(m, e) == IF e = OK THEN m ELSE [m EXCEPT !.errno = e]

\* what an injected fault does to this call: openat runs out of descriptors,
\* close reports a deferred I/O error
NoFault == "none"
Faults == {NoFault, EMFILE, EIO}

\* the value v under the name the operator Op gives it
With(v, Op(_)) == Op(v)

\* what a system call that fails with e (OK: succeeds) returns
RetOf(e) == IF e = OK THEN 0 ELSE -1

\* errno of an xattr call on what the lookup r found
XattrErr(r, e) == IF r.err # OK THEN r.err ELSE e

SysGetxattr(m, pathname, follow) ==
    With(Lookup(AT_FDCWD, pathname, follow, FALSE, m.fds), LAMBDA r :
      With(XattrErr(r, XattrGetErr(r.ino, m.marker)), LAMBDA e :
        [ret |-> RetOf(e), m |-> SetErr(Emit(m, "getxattr", r.ino, 0), e)]))

getxattr(m, pathname) == SysGetxattr(m, pathname, TRUE)

lgetxattr(m, pathname) == SysGetxattr(m, pathname, FALSE)

SysRemovexattr(m, pathname, follow) ==
    With(Lookup(AT_FDCWD, pathname, follow, FALSE, m.fds), LAMBDA r :
      With(XattrErr(r, XattrRemoveErr(r.ino, m.marker)), LAMBDA e :
        [ret |-> RetOf(e),
         m |-> IF e = OK
               THEN [Emit(m, "removexattr", r.ino, 0)
                       EXCEPT !.marker = [@ EXCEPT ![r.ino] = FALSE]]
               ELSE SetErr(Emit(m, "removexattr", r.ino, 0), e)]))

removexattr(m, pathname) == SysRemovexattr(m, pathname, TRUE)

\* .symver lremovexattr,removexattr@GLIBC_2.3 binds every reference to
\* lremovexattr to removexattr, which follows symbolic links.
lremovexattr(m, pathname) == removexattr(m, pathname)

LowestFreeFd(fdt) == CHOOSE fd \in 3 .. 3 + Cardinality(DOMAIN fdt) :
                        /\ fd \notin DOMAIN fdt
                        /\ \A k \in 3 .. fd - 1 : k \in DOMAIN fdt

\* openat(dirfd, pathname, O_RDONLY | O_CLOEXEC | O_PATH [| O_NOFOLLOW])
openat(m, dirfd, pathname, nofollow, fault) ==
    With(Lookup(dirfd, pathname, ~nofollow, FALSE, m.fds), LAMBDA r :
      With(IF fault = EMFILE THEN EMFILE ELSE r.err, LAMBDA e :
        With(LowestFreeFd(m.fds), LAMBDA fd :
          IF e = OK
          THEN [ret |-> fd,
                m |-> [Emit(m, "openat", r.ino, 0)
                         EXCEPT !.fds = [f \in DOMAIN m.fds \cup {fd} |->
                                           IF f = fd THEN r.ino ELSE m.fds[f]]]]
          ELSE [ret |-> -1, m |-> SetErr(Emit(m, "openat", NONE, 0), e)])))

\* close(fd): the descriptor is released even when close reports an error
close(m, fd, fault) ==
    With(IF fd \notin DOMAIN m.fds THEN EBADF
         ELSE IF fault = EIO THEN EIO ELSE OK, LAMBDA e :
      [ret |-> RetOf(e),
       m |-> SetErr([Emit(m, "close", ToString(fd), 0)
                       EXCEPT !.fds = [f \in DOMAIN m.fds \ {fd} |-> m.fds[f]]],
                    e)])

\* sprintf(fdpath, "/proc/self/fd/%d", fd)
sprintf_fdpath(fd) == Abs(<<"proc", "self", "fd", ToString(fd)>>)

\* fprintf(stderr, ...)
fprintf(m, what) == Emit(m, "fprintf", what, 0)

\* abort()
abort(m) == [Emit(m, "abort", NONE, 0) EXCEPT !.aborted = TRUE]

\* The kernel's newfstatat / statx on (dirfd, pathname, flags); key is the
\* sixth syscall argument.  buf = FALSE is a NULL result buffer.
SysStat(m, name, dirfd, pathname, buf, flags, key) ==
    With(Lookup(dirfd, pathname, AT_SYMLINK_NOFOLLOW \notin flags,
                AT_EMPTY_PATH \in flags, m.fds), LAMBDA r :
      With(IF ~buf THEN EFAULT ELSE r.err, LAMBDA e :
        IF e = OK
        THEN [ret |-> 0, out |-> m.owner[r.ino], m |-> Emit(m, name, r.ino, key)]
        ELSE [ret |-> -1, out |-> <<>>,
              m |-> SetErr(Emit(m, name, r.ino, key), e)]))

\* The kernel's fchownat.
SysChown(m, name, dirfd, pathname, uid, gid, flags, key) ==
    With(Lookup(dirfd, pathname, AT_SYMLINK_NOFOLLOW \notin flags,
                AT_EMPTY_PATH \in flags, m.fds), LAMBDA r :
      IF r.err = OK
      THEN [ret |-> 0, out |-> <<>>,
            m |-> [Emit(m, name, r.ino, key)
                     EXCEPT !.owner = [@ EXCEPT ![r.ino] = <<uid, gid>>]]]
      ELSE [ret |-> -1, out |-> <<>>,
            m |-> SetErr(Emit(m, name, r.ino, key), r.err)])

(***************************************************************************)
(* The true implementations found by dlsym(RTLD_NEXT, ...).  They enter the *)
(* kernel without the key, where the tracer takes the call over: what it    *)
(* does to the overlay is the tracer's business (TracerSetMarker below);    *)
(* the real ownership is not changed by a forwarded call.                   *)
(***************************************************************************)
g_libc_fstatat(m, dirfd, pathname, statbuf, flags) ==
    SysStat(m, "libc_fstatat", dirfd, pathname, statbuf, flags, 0)

g_libc_statx(m, dirfd, pathname, flags, statxbuf) ==
    SysStat(m, "libc_statx", dirfd, pathname, statxbuf, flags, 0)

g_libc_fchownat(m, dirfd, pathname, uid, gid, flags) ==
    With(Lookup(dirfd, pathname, AT_SYMLINK_NOFOLLOW \notin flags,
                AT_EMPTY_PATH \in flags, m.fds), LAMBDA r :
      [ret |-> RetOf(r.err), out |-> <<>>,
       m |-> SetErr(Emit(m, "libc_fchownat", r.ino, 0), r.err)])

g_libc_fchmodat(m, dirfd, pathname, mode, flags) ==
    With(Lookup(dirfd, pathname, TRUE, FALSE, m.fds), LAMBDA r :
      [ret |-> RetOf(r.err), out |-> <<>>,
       m |-> SetErr(Emit(m, "libc_fchmodat", r.ino, 0), r.err)])

(***************************************************************************)
(* Initialisation                                                           *)
(***************************************************************************)
do_init(env) == [verbose |-> env.FAKEFS_VERBOSE,
                 abort_on_slow |-> env.FAKEFS_ABORT_ON_SLOW,
                 libc |-> TRUE]

\* pthread_once(&g_init_flag, do_init): the globals after the call
ensure_init ==
    IF g_init_flag = "INIT" THEN do_init(environ)
    ELSE [verbose |-> g_verbose, abort_on_slow |-> g_abort_on_slow,
          libc |-> g_libc]

(***************************************************************************)
(* The override marker: probe and clear                                     *)
(***************************************************************************)
\* path_has_no_override without ENODATA in its list of errors
path_has_no_override_enodata(m, pathname, follow_symlink) ==
    With(IF follow_symlink THEN getxattr(m, pathname)
         ELSE lgetxattr(m, pathname), LAMBDA r :
      [val |-> r.ret < 0 /\ r.m.errno \in {ENOTSUP, ENOENT, ENOTDIR},
       m |-> r.m])

path_has_no_override(m, pathname, follow_symlink) ==
    With(IF follow_symlink THEN getxattr(m, pathname)
         ELSE lgetxattr(m, pathname), LAMBDA r :
      [val |-> r.ret < 0 /\ r.m.errno \in {ENODATA, ENOTSUP, ENOENT, ENOTDIR},
       m |-> r.m])

fd_has_no_override(m, fd) ==
    path_has_no_override(m, sprintf_fdpath(fd), TRUE)

\* errno around an errno-preserving function
Chk(fn, m0, inner, m1) ==
    [m1 EXCEPT !.chk = Append(@, [fn |-> fn, before |-> m0.errno,
                                  inner |-> inner.errno, after |-> m1.errno])]

\* has_no_override without close(tmpfd)
has_no_override_noclose(m, dirfd, pathname, flags, fault) ==
    With(m.errno, LAMBDA saved_errno :
      With(IF AT_EMPTY_PATH \in flags /\ IsEmpty(pathname)
           THEN fd_has_no_override(m, dirfd)
           ELSE IF dirfd = AT_FDCWD \/ pathname.abs
           THEN path_has_no_override(m, pathname, AT_SYMLINK_NOFOLLOW \notin flags)
           ELSE With(openat(m, dirfd, pathname,
                            AT_SYMLINK_NOFOLLOW \in flags, fault), LAMBDA o :
                  IF o.ret >= 0
                  THEN With(fd_has_no_override(o.m, o.ret), LAMBDA r :
                         [val |-> r.val, m |-> r.m])
                  ELSE [val |-> FALSE, m |-> o.m]),
           LAMBDA p :
        [val |-> p.val,
         m |-> Chk("has_no_override", m, p.m, [p.m EXCEPT !.errno = saved_errno])]))

has_no_override(m, dirfd, pathname, flags, fault) ==
    With(m.errno, LAMBDA saved_errno :
      With(IF AT_EMPTY_PATH \in flags /\ IsEmpty(pathname)
           THEN fd_has_no_override(m, dirfd)
           ELSE IF dirfd = AT_FDCWD \/ pathname.abs
           THEN path_has_no_override(m, pathname, AT_SYMLINK_NOFOLLOW \notin flags)
           ELSE With(openat(m, dirfd, pathname,
                            AT_SYMLINK_NOFOLLOW \in flags, fault), LAMBDA o :
                  IF o.ret >= 0
                  THEN With(fd_has_no_override(o.m, o.ret), LAMBDA r :
                         [val |-> r.val, m |-> close(r.m, o.ret, fault).m])
                  ELSE [val |-> FALSE, m |-> o.m]),
           LAMBDA p :
        [val |-> p.val,
         m |-> Chk("has_no_override", m, p.m, [p.m EXCEPT !.errno = saved_errno])]))

path_clear_override(m, pathname, follow_symlink) ==
    With(IF follow_symlink THEN removexattr(m, pathname)
         ELSE lremovexattr(m, pathname), LAMBDA r :
      [val |-> r.ret = 0 \/ r.m.errno \in {ENODATA, ENOTSUP, EPERM},
       m |-> r.m])

fd_clear_override(m, fd) ==
    path_clear_override(m, sprintf_fdpath(fd), TRUE)

clear_override(m, dirfd, pathname, flags, fault) ==
    With(m.errno, LAMBDA saved_errno :
      With(IF AT_EMPTY_PATH \in flags /\ IsEmpty(pathname)
           THEN fd_clear_override(m, dirfd)
           ELSE IF dirfd = AT_FDCWD \/ pathname.abs
           THEN path_clear_override(m, pathname, AT_SYMLINK_NOFOLLOW \notin flags)
           ELSE With(openat(m, dirfd, pathname,
                            AT_SYMLINK_NOFOLLOW \in flags, fault), LAMBDA o :
                  IF o.ret >= 0
                  THEN With(fd_clear_override(o.m, o.ret), LAMBDA r :
                         [val |-> r.val, m |-> close(r.m, o.ret, fault).m])
                  ELSE [val |-> FALSE, m |-> o.m]),
           LAMBDA p :
        [val |-> p.val,
         m |-> Chk("clear_override", m, p.m, [p.m EXCEPT !.errno = saved_errno])]))

(***************************************************************************)
(* The backdoor syscalls: the real syscall with FAKEFS_BACKDOOR_KEY as its  *)
(* sixth argument                                                           *)
(***************************************************************************)
backdoor_fstatat(m, dirfd, pathname, statbuf, flags) ==
    SysStat(m, "SYS_newfstatat", dirfd, pathname, statbuf, flags,
            FAKEFS_BACKDOOR_KEY)

backdoor_statx(m, dirfd, pathname, flags, statxbuf) ==
    SysStat(m, "SYS_statx", dirfd, pathname, statxbuf, flags,
            FAKEFS_BACKDOOR_KEY)

backdoor_fchownat(m, dirfd, pathname, uid, gid, flags) ==
    SysChown(m, "SYS_fchownat", dirfd, pathname, uid, gid, flags,
             FAKEFS_BACKDOOR_KEY)

\* matches_original_ownership comparing the owner only
matches_original_ownership_uid(m, dirfd, pathname, flags, uid, gid) ==
    With(m.errno, LAMBDA saved_errno :
      With(backdoor_fstatat(m, dirfd, pathname, TRUE, flags), LAMBDA s :
        [val |-> s.ret = 0 /\ s.out[1] = uid,
         m |-> Chk("matches_original_ownership", m, s.m,
                   [s.m EXCEPT !.errno = saved_errno])]))

\* matches_original_ownership without errno = saved_errno
matches_original_ownership_errno(m, dirfd, pathname, flags, uid, gid) ==
    With(backdoor_fstatat(m, dirfd, pathname, TRUE, flags), LAMBDA s :
      [val |-> s.ret = 0 /\ s.out[1] = uid /\ s.out[2] = gid,
       m |-> Chk("matches_original_ownership", m, s.m, s.m)])

matches_original_ownership(m, dirfd, pathname, flags, uid, gid) ==
    With(m.errno, LAMBDA saved_errno :
      With(backdoor_fstatat(m, dirfd, pathname, TRUE, flags), LAMBDA s :
        [val |-> s.ret = 0 /\ s.out[1] = uid /\ s.out[2] = gid,
         m |-> Chk("matches_original_ownership", m, s.m,
                   [s.m EXCEPT !.errno = saved_errno])]))

(***************************************************************************)
(* The dispatch layer.  g holds the globals after ensure_init().            *)
(***************************************************************************)
Efault(m) == [ret |-> -1, out |-> <<>>, m |-> [m EXCEPT !.errno = EFAULT]]
Enotsup(m) == [ret |-> -1, out |-> <<>>, m |-> [m EXCEPT !.errno = ENOTSUP]]
Aborted(m, what) == [ret |-> 0, out |-> <<>>, m |-> abort(fprintf(m, what))]
Logged(g, m) == IF g.verbose THEN fprintf(m, "fast") ELSE m

\* wrap_fstatat without the g_abort_on_slow branch
wrap_fstatat_noabort(m, g, dirfd, pathname, statbuf, flags, fault) ==
    IF pathname.null \/ ~statbuf THEN Efault(m)
    ELSE With(has_no_override(m, dirfd, pathname, flags, fault), LAMBDA h :
           IF h.val
            THEN backdoor_fstatat(Logged(g, h.m), dirfd, pathname, statbuf, flags)
            ELSE g_libc_fstatat(h.m, dirfd, pathname, statbuf, flags))

wrap_fstatat(m, g, dirfd, pathname, statbuf, flags, fault) ==
    IF pathname.null \/ ~statbuf THEN Efault(m)
    ELSE With(has_no_override(m, dirfd, pathname, flags, fault), LAMBDA h :
           IF h.val
            THEN backdoor_fstatat(Logged(g, h.m), dirfd, pathname, statbuf, flags)
            ELSE IF g.abort_on_slow THEN Aborted(h.m, "ABORT-ON-SLOW")
            ELSE g_libc_fstatat(h.m, dirfd, pathname, statbuf, flags))

\* wrap_statx checking pathname only
wrap_statx_nobuf(m, g, dirfd, pathname, flags, statxbuf, fault) ==
    IF pathname.null THEN Efault(m)
    ELSE With(has_no_override(m, dirfd, pathname, flags, fault), LAMBDA h :
           IF h.val
            THEN backdoor_statx(Logged(g, h.m), dirfd, pathname, flags, statxbuf)
            ELSE IF g.abort_on_slow THEN Aborted(h.m, "ABORT-ON-SLOW")
            ELSE g_libc_statx(h.m, dirfd, pathname, flags, statxbuf))

wrap_statx(m, g, dirfd, pathname, flags, statxbuf, fault) ==
    IF pathname.null \/ ~statxbuf THEN Efault(m)
    ELSE With(has_no_override(m, dirfd, pathname, flags, fault), LAMBDA h :
           IF h.val
            THEN backdoor_statx(Logged(g, h.m), dirfd, pathname, flags, statxbuf)
            ELSE IF g.abort_on_slow THEN Aborted(h.m, "ABORT-ON-SLOW")
            ELSE g_libc_statx(h.m, dirfd, pathname, flags, statxbuf))

wrap_fchownat(m, g, dirfd, pathname, uid, gid, flags, fault) ==
    IF pathname.null THEN Efault(m)
    ELSE With(matches_original_ownership(m, dirfd, pathname, flags, uid, gid),
              LAMBDA mo :
           \* the && of the code: clear_override runs only after a match
           With(IF mo.val
                THEN clear_override(mo.m, dirfd, pathname, flags, fault)
                ELSE [val |-> FALSE, m |-> mo.m], LAMBDA c :
             IF c.val
             THEN backdoor_fchownat(Logged(g, c.m), dirfd, pathname, uid, gid,
                                    flags)
             ELSE IF g.abort_on_slow THEN Aborted(c.m, "ABORT-ON-SLOW")
             ELSE g_libc_fchownat(c.m, dirfd, pathname, uid, gid, flags)))

\* wrap_fchmodat as glibc 2.32 and later: AT_SYMLINK_NOFOLLOW is passed on
wrap_fchmodat_passon(m, g, dirfd, pathname, mode, flags) ==
    g_libc_fchmodat(m, dirfd, pathname, mode, flags)

wrap_fchmodat(m, g, dirfd, pathname, mode, flags) ==
    IF AT_SYMLINK_NOFOLLOW \in flags THEN Enotsup(m)
    ELSE g_libc_fchmodat(m, dirfd, pathname, mode, flags)

(***************************************************************************)
(* The inputs of the calls                                                  *)
(***************************************************************************)
Paths == {NullPath, Rel(<<>>), Rel(<<"a">>), Abs(<<"a">>), Rel(<<"l">>),
          Rel(<<"dl">>), Rel(<<"a", "x">>), Rel(<<"p">>), Abs(<<"p">>),
          Abs(<<"n">>)}
Dirfds == {AT_FDCWD, 3, 4}
OpenFds == {3, 4}
FlagSets == SUBSET {AT_SYMLINK_NOFOLLOW, AT_EMPTY_PATH}
Modes == {420}                                 \* 0644

\* a fault is drawn only for a call that opens a temporary descriptor
FaultsFor(dirfd, pathname, flags) ==
    IF pathname.null \/ dirfd = AT_FDCWD \/ pathname.abs \/ IsEmpty(pathname)
         \/ AT_EMPTY_PATH \in flags
    THEN {NoFault} ELSE Faults

\* the inode the kernel resolves the call's target to
Target(dirfd, pathname, flags) ==
    Lookup(dirfd, pathname, AT_SYMLINK_NOFOLLOW \notin flags,
           AT_EMPTY_PATH \in flags, fds).ino

Machine == [errno |-> errno, fds |-> fds, marker |-> marker, owner |-> owner,
            aborted |-> FALSE, log |-> <<>>, chk |-> <<>>]

NoCall == [op |-> "none", dirfd |-> 0, pathname |-> NullPath, flags |-> {},
           buf |-> FALSE, uid |-> 0, gid |-> 0, target |-> NONE,
           fault |-> NoFault, ret |-> 0, out |-> <<>>, log |-> <<>>,
           chk |-> <<>>, pre |-> [errno |-> OK, marker |-> <<>>,
                                  owner |-> <<>>, fds |-> <<>>]]

\* A wrapped call returns (or aborts): the machine state it leaves, and the
\* record of what it did.
Finish(op, dirfd, pathname, flags, buf, uid, gid, fault, g, r) ==
    /\ g_init_flag' = "DONE"
    /\ g_verbose' = g.verbose
    /\ g_abort_on_slow' = g.abort_on_slow
    /\ g_libc' = g.libc
    /\ errno' = r.m.errno
    /\ fds' = r.m.fds
    /\ marker' = r.m.marker
    /\ owner' = r.m.owner
    /\ aborted' = r.m.aborted
    /\ pc' = "done"
    /\ last' = [op |-> op, dirfd |-> dirfd, pathname |-> pathname,
                flags |-> flags, buf |-> buf, uid |-> uid, gid |-> gid,
                target |-> IF pathname.null THEN NONE
                           ELSE Target(dirfd, pathname, flags),
                fault |-> fault, ret |-> r.ret, out |-> r.out,
                log |-> r.m.log, chk |-> r.m.chk,
                pre |-> [errno |-> errno, marker |-> marker, owner |-> owner,
                         fds |-> fds]]
    /\ init_runs' = IF g_init_flag = "INIT" THEN init_runs + 1 ELSE init_runs
    /\ UNCHANGED <<environ, threads>>

CanCall == pc = "idle" /\ ~aborted

(***************************************************************************)
(* The entry points (stat64, lstat64, fstat64 and fstatat64 have the bodies *)
(* of stat, lstat, fstat and fstatat)                                       *)
(***************************************************************************)
fakefs_stat ==
    /\ CanCall
    /\ \E pathname \in Paths, statbuf \in BOOLEAN :
         Finish("stat", AT_FDCWD, pathname, {}, statbuf, 0, 0, NoFault, ensure_init,
                wrap_fstatat(Machine, ensure_init, AT_FDCWD, pathname, statbuf,
                             {}, NoFault))

fakefs_lstat ==
    /\ CanCall
    /\ \E pathname \in Paths, statbuf \in BOOLEAN :
         Finish("lstat", AT_FDCWD, pathname, {AT_SYMLINK_NOFOLLOW}, statbuf, 0, 0,
                NoFault, ensure_init,
                wrap_fstatat(Machine, ensure_init, AT_FDCWD, pathname, statbuf,
                             {AT_SYMLINK_NOFOLLOW}, NoFault))

fakefs_fstat ==
    /\ CanCall
    /\ \E fd \in OpenFds, statbuf \in BOOLEAN :
         Finish("fstat", fd, Rel(<<>>), {AT_EMPTY_PATH}, statbuf, 0, 0, NoFault,
                ensure_init,
                wrap_fstatat(Machine, ensure_init, fd, Rel(<<>>), statbuf,
                             {AT_EMPTY_PATH}, NoFault))

fakefs_fstatat ==
    /\ CanCall
    /\ \E dirfd \in Dirfds, pathname \in Paths, statbuf \in BOOLEAN,
          flags \in FlagSets :
         \E fault \in FaultsFor(dirfd, pathname, flags) :
           Finish("fstatat", dirfd, pathname, flags, statbuf, 0, 0, fault,
                  ensure_init,
                  wrap_fstatat(Machine, ensure_init, dirfd, pathname, statbuf,
                               flags, fault))

fakefs_statx ==
    /\ CanCall
    /\ \E dirfd \in Dirfds, pathname \in Paths, statxbuf \in BOOLEAN,
          flags \in FlagSets :
         \E fault \in FaultsFor(dirfd, pathname, flags) :
           Finish("statx", dirfd, pathname, flags, statxbuf, 0, 0, fault,
                  ensure_init,
                  wrap_statx(Machine, ensure_init, dirfd, pathname, flags,
                             statxbuf, fault))

fakefs_chown ==
    /\ CanCall
    /\ \E pathname \in Paths, uid \in Ids, gid \in Ids :
         Finish("chown", AT_FDCWD, pathname, {}, TRUE, uid, gid, NoFault,
                ensure_init,
                wrap_fchownat(Machine, ensure_init, AT_FDCWD, pathname, uid, gid,
                              {}, NoFault))

fakefs_fchown ==
    /\ CanCall
    /\ \E fd \in OpenFds, uid \in Ids, gid \in Ids :
         Finish("fchown", fd, Rel(<<>>), {AT_EMPTY_PATH}, TRUE, uid, gid, NoFault,
                ensure_init,
                wrap_fchownat(Machine, ensure_init, fd, Rel(<<>>), uid, gid,
                              {AT_EMPTY_PATH}, NoFault))

fakefs_lchown ==
    /\ CanCall
    /\ \E pathname \in Paths, uid \in Ids, gid \in Ids :
         Finish("lchown", AT_FDCWD, pathname, {AT_SYMLINK_NOFOLLOW}, TRUE, uid,
                gid, NoFault, ensure_init,
                wrap_fchownat(Machine, ensure_init, AT_FDCWD, pathname, uid, gid,
                              {AT_SYMLINK_NOFOLLOW}, NoFault))

fakefs_fchownat ==
    /\ CanCall
    /\ \E dirfd \in Dirfds, pathname \in Paths, uid \in Ids, gid \in Ids,
          flags \in FlagSets :
         \E fault \in FaultsFor(dirfd, pathname, flags) :
           Finish("fchownat", dirfd, pathname, flags, TRUE, uid, gid, fault,
                  ensure_init,
                  wrap_fchownat(Machine, ensure_init, dirfd, pathname, uid, gid,
                                flags, fault))

fakefs_fchmodat ==
    /\ CanCall
    /\ \E dirfd \in Dirfds, pathname \in Paths, mode \in Modes,
          flags \in FlagSets :
         Finish("fchmodat", dirfd, pathname, flags, TRUE, 0, 0, NoFault,
                ensure_init,
                wrap_fchmodat(Machine, ensure_init, dirfd, pathname, mode, flags))

(***************************************************************************)
(* The caller and the tracer                                                *)
(***************************************************************************)
IsChown(c) == c.op \in {"chown", "fchown", "lchown", "fchownat"}
IsStat(c) == c.op \in {"stat", "lstat", "fstat", "fstatat", "statx"}

\* the call asked for the ownership its target really had
TrueChown(c) == /\ IsChown(c)
                /\ c.target # NONE
                /\ c.pre.owner[c.target] = <<c.uid, c.gid>>

\* the caller takes the result of the call and goes on
Return ==
    /\ pc = "done" /\ ~aborted
    /\ pc' = "idle"
    /\ last' = NoCall
    /\ UNCHANGED <<g_init_flag, g_verbose, g_abort_on_slow, g_libc, environ,
                   errno, fds, marker, owner, aborted, threads, init_runs>>

\* the tracer installs an overlay on a file and marks it
TracerSetMarker ==
    /\ CanCall
    /\ \E f \in MarkerTargets :
         /\ ~marker[f]
         /\ marker' = [marker EXCEPT ![f] = TRUE]
    /\ UNCHANGED <<g_init_flag, g_verbose, g_abort_on_slow, g_libc, environ,
                   errno, fds, owner, aborted, pc, last, threads, init_runs>>

\* the marker is taken off a file from outside the library
TracerRemoveMarker ==
    /\ CanCall
    /\ \E f \in MarkerTargets :
         /\ marker[f]
         /\ marker' = [marker EXCEPT ![f] = FALSE]
    /\ UNCHANGED <<g_init_flag, g_verbose, g_abort_on_slow, g_libc, environ,
                   errno, fds, owner, aborted, pc, last, threads, init_runs>>

\* a thread that has made no wrapped call yet
NoThread == [pc |-> "idle", op |-> "none", uid |-> 0, gid |-> 0, errno |-> OK,
             val |-> FALSE, before |-> FALSE, at |-> FALSE, fast |-> FALSE]

TrueOwner(i) == IF i \in {"a", "l", "dl"} THEN <<1, 1>>
                ELSE IF i = "b" THEN <<1, 0>>
                ELSE <<0, 0>>

Init ==
    /\ g_init_flag = "INIT"
    /\ g_verbose = FALSE
    /\ g_abort_on_slow = FALSE
    /\ g_libc = FALSE
    /\ environ \in [FAKEFS_VERBOSE : BOOLEAN, FAKEFS_ABORT_ON_SLOW : BOOLEAN]
    /\ errno = OK
    /\ fds = [fd \in OpenFds |-> IF fd = 3 THEN "a" ELSE "d"]
    /\ marker = [i \in Inodes |-> FALSE]
    /\ owner = [i \in Inodes |-> TrueOwner(i)]
    /\ aborted = FALSE
    /\ pc = "idle"
    /\ last = NoCall
    /\ threads = [t \in Threads |-> NoThread]
    /\ init_runs = 0

Next ==
    \/ fakefs_stat
    \/ fakefs_lstat
    \/ fakefs_fstat
    \/ fakefs_fstatat
    \/ fakefs_statx
    \/ fakefs_chown
    \/ fakefs_fchown
    \/ fakefs_lchown
    \/ fakefs_fchownat
    \/ fakefs_fchmodat
    \/ Return
    \/ TracerSetMarker
    \/ TracerRemoveMarker

Spec == Init /\ [][Next]_vars

(***************************************************************************)
(* What the call that just returned did                                     *)
(***************************************************************************)
Done == pc = "done"

\* number of calls in the log whose name is in S
NEv(S) == Cardinality({k \in 1 .. Len(last.log) : last.log[k].ev \in S})

\* number of syscalls in the log, named in S, that carried the key
NKeyed(S) == Cardinality({k \in 1 .. Len(last.log) :
                            /\ last.log[k].ev \in S
                            /\ last.log[k].key = FAKEFS_BACKDOOR_KEY})

StatSyscalls == {"SYS_newfstatat", "SYS_statx"}
LibcCalls == {"libc_fstatat", "libc_statx", "libc_fchownat", "libc_fchmodat"}
ProbeCalls == {"getxattr", "openat", "close"}

\* a stat-family call that passed the NULL checks
ValidStat == Done /\ IsStat(last) /\ ~last.pathname.null /\ last.buf

\* a chown-family call that passed the NULL check
ValidChown == Done /\ IsChown(last) /\ ~last.pathname.null

\* reading the marker of the call's target fails for no reason but its
\* absence or an unsupported namespace, and the temporary descriptor of a
\* directory-relative probe can be opened
ProbeConclusive ==
    /\ XattrGetErr(last.target, last.pre.marker) \in {ENODATA, ENOTSUP}
    /\ last.fault # EMFILE

\* C1 as stated: for any file that has no override marker, every stat-family
\* call with non-null arguments issues the fast-path-signalled syscall
\* exactly once, does not forward, and returns the result of that syscall.
C1_Original ==
    (ValidStat /\ last.target # NONE /\ ~last.pre.marker[last.target])
    => /\ NKeyed(StatSyscalls) = 1
       /\ NEv(LibcCalls) = 0

\* C1 (amended): for any file that has no override marker and whose marker
\* probe is conclusive (reading the marker does not fail for a reason other
\* than its absence or an unsupported namespace, and the temporary handle of
\* a directory-relative probe can be opened), every stat-family call with
\* non-null arguments issues the fast-path-signalled syscall exactly once,
\* makes no call to the true implementation, does not abort, and returns
\* that syscall's result: success and the file's true ownership.
C1_FastPathWhenNoMarker ==
    (ValidStat /\ last.target # NONE /\ ~last.pre.marker[last.target]
       /\ ProbeConclusive)
    => /\ NKeyed(StatSyscalls) = 1
       /\ NEv(StatSyscalls) = 1
       /\ NEv(LibcCalls) = 0
       /\ ~aborted
       /\ last.ret = 0
       /\ last.out = last.pre.owner[last.target]
       /\ last.log[Len(last.log)].obj = last.target

\* a directory-relative stat of an unmarked file, probed through a
\* temporary descriptor, took the fast path while another file is marked
C1_Witness ==
    /\ ValidStat
    /\ last.dirfd = 4 /\ last.target = "b"
    /\ last.pre.marker["a"] /\ ~last.pre.marker["b"]
    /\ NEv({"openat"}) = 1
    /\ NKeyed(StatSyscalls) = 1
    /\ last.out = <<1, 0>>

\* C2: for any file that has an override marker, every stat-family call
\* (with non-null arguments) in non-strict mode is forwarded to the true
\* implementation and issues no syscall carrying the fast-path signal.
C2_ForwardedWhenMarked ==
    (ValidStat /\ last.target # NONE /\ last.pre.marker[last.target]
       /\ ~g_abort_on_slow)
    => /\ NEv(LibcCalls) = 1
       /\ NKeyed(StatSyscalls) = 0

\* the marker can be taken off the call's target: its removal succeeds, or
\* is refused in one of the three accepted ways with no marker on the file,
\* and the temporary descriptor of a directory-relative clear can be opened
ClearDoesNotFail ==
    /\ LET e == XattrRemoveErr(last.target, last.pre.marker)
       IN \/ e \in {OK, ENODATA, ENOTSUP}
          \/ e = EPERM /\ ~last.pre.marker[last.target]
    /\ last.fault # EMFILE

\* C3: over any sequence of marker set/remove events and wrapped calls on a
\* file F, (1) a stat on F issued while F carries the marker does not take
\* the fast path; (2) a stat on F issued while F carries no marker (the probe
\* being conclusive) takes the fast path; (3) once an ownership change of F
\* to its true uid/gid has returned (the clear not failing), F carries no
\* marker and a fast-path ownership-change syscall was made, so that by (2)
\* the next stat on F takes the fast path.
C3_MarkerSequence ==
    /\ (ValidStat /\ last.target # NONE /\ last.pre.marker[last.target])
       => NKeyed(StatSyscalls) = 0
    /\ (ValidStat /\ last.target # NONE /\ ~last.pre.marker[last.target]
          /\ ProbeConclusive)
       => NKeyed(StatSyscalls) = 1
    /\ (ValidChown /\ TrueChown(last) /\ ClearDoesNotFail /\ ~aborted)
       => /\ ~marker[last.target]
          /\ NKeyed({"SYS_fchownat"}) = 1

\* C4: an ownership-change call whose requested owner and group equal the
\* file's true owner and group (the clear of the file's marker not failing,
\* section 4.4) leaves the file without marker and issues the change through
\* the fast-path-signalled syscall, without forwarding.
C4_TrueChownClearsAndIsFast ==
    (ValidChown /\ TrueChown(last) /\ ClearDoesNotFail)
    => /\ ~marker[last.target]
       /\ NKeyed({"SYS_fchownat"}) = 1
       /\ NEv(LibcCalls) = 0
       /\ ~aborted

\* C5: an ownership-change call (on a non-null path) whose requested owner
\* or group differs from the file's true owner or group, or whose true
\* ownership cannot be read, leaves every marker unchanged, never issues the
\* fast-path-signalled ownership-change syscall, and is forwarded exactly
\* once in non-strict mode or aborts, without forwarding, in strict mode.
C5_OtherChownIsForwarded ==
    (ValidChown /\ ~TrueChown(last))
    => /\ marker = last.pre.marker
       /\ owner = last.pre.owner
       /\ NEv({"SYS_fchownat"}) = 0
       /\ NEv({"removexattr"}) = 0
       /\ IF g_abort_on_slow
          THEN aborted /\ NEv(LibcCalls) = 0
          ELSE ~aborted /\ NEv({"libc_fchownat"}) = 1 /\ NEv(LibcCalls) = 1

\* a chown of a marked file to an ownership that differs in the group only
\* was forwarded and left the marker in place
C5_Witness ==
    /\ ValidChown
    /\ last.target = "a" /\ last.uid = 1 /\ last.gid = 0
    /\ last.pre.marker["a"] /\ marker["a"]
    /\ NEv({"libc_fchownat"}) = 1

\* C6: fchmodat with AT_SYMLINK_NOFOLLOW always fails with ENOTSUP, whatever
\* the directory handle, path, mode, strictness and file-system state, and
\* makes no call at all (no probe, no resolution, no syscall, no forward);
\* every other fchmodat is forwarded to the true implementation exactly once,
\* makes no other call and never carries the fast-path signal.
C6_Fchmodat ==
    (Done /\ last.op = "fchmodat")
    => /\ ~aborted
       /\ marker = last.pre.marker /\ owner = last.pre.owner
       /\ IF AT_SYMLINK_NOFOLLOW \in last.flags
          THEN last.ret = -1 /\ errno = ENOTSUP /\ last.log = <<>>
          ELSE /\ Len(last.log) = 1
               /\ last.log[1].ev = "libc_fchmodat"
               /\ last.log[1].key = 0

\* a no-follow fchmodat in strict mode on an existing, marked file failed
\* with ENOTSUP although errno was something else before
C6_Witness ==
    /\ Done /\ last.op = "fchmodat"
    /\ AT_SYMLINK_NOFOLLOW \in last.flags
    /\ g_abort_on_slow
    /\ last.target = "a" /\ marker["a"]
    /\ last.pre.errno = ENOENT
    /\ errno = ENOTSUP /\ last.ret = -1

\* the error, if any, of the path the call ends on: its own validation, or
\* the kernel's resolution of its target
FinalErr ==
    IF last.op = "fchmodat"
    THEN IF AT_SYMLINK_NOFOLLOW \in last.flags THEN ENOTSUP
         ELSE Lookup(last.dirfd, last.pathname, TRUE, FALSE, last.pre.fds).err
    ELSE IF last.pathname.null \/ ~last.buf THEN EFAULT
    ELSE Lookup(last.dirfd, last.pathname,
                AT_SYMLINK_NOFOLLOW \notin last.flags,
                AT_EMPTY_PATH \in last.flags, last.pre.fds).err

Rerun(c, verbose) ==
    LET m == [errno |-> c.pre.errno, fds |-> c.pre.fds,
              marker |-> c.pre.marker, owner |-> c.pre.owner,
              aborted |-> FALSE, log |-> <<>>, chk |-> <<>>]
        g == [verbose |-> verbose, abort_on_slow |-> g_abort_on_slow,
              libc |-> g_libc]
    IN CASE c.op = "statx" ->
              wrap_statx(m, g, c.dirfd, c.pathname, c.flags, c.buf, c.fault)
         [] IsStat(c) /\ c.op # "statx" ->
              wrap_fstatat(m, g, c.dirfd, c.pathname, c.buf, c.flags, c.fault)
         [] IsChown(c) ->
              wrap_fchownat(m, g, c.dirfd, c.pathname, c.uid, c.gid, c.flags,
                            c.fault)
         [] OTHER ->
              wrap_fchmodat(m, g, c.dirfd, c.pathname, 420, c.flags)

IsNoLog(e) == e.ev # "fprintf"

\* the verbosity flag changes nothing but the diagnostics written
VerbosityIndependent ==
    LET r0 == Rerun(last, FALSE)
        r1 == Rerun(last, TRUE)
        ra == Rerun(last, g_verbose)
    IN /\ r0.ret = r1.ret /\ r0.out = r1.out
       /\ r0.m.errno = r1.m.errno /\ r0.m.marker = r1.m.marker
       /\ r0.m.owner = r1.m.owner /\ r0.m.fds = r1.m.fds
       /\ r0.m.aborted = r1.m.aborted
       /\ SelectSeq(r0.m.log, IsNoLog) = SelectSeq(r1.m.log, IsNoLog)
       /\ ra.ret = last.ret /\ ra.m.log = last.log /\ ra.m.errno = errno
       /\ r0.m.aborted = aborted

\* the call ended on its fast path: the last thing it did is the
\* key-carrying syscall
OnFastPath ==
    /\ last.log # <<>>
    /\ last.log[Len(last.log)].key = FAKEFS_BACKDOOR_KEY
    /\ last.log[Len(last.log)].ev \in
         (IF IsStat(last) THEN StatSyscalls ELSE {"SYS_fchownat"})

FailedValidation == last.ret = -1 /\ last.log = <<>> /\ errno \in {EFAULT, ENOTSUP}

\* C8 as stated: with the strictness flag set no wrapped call ever forwards
\* to the true implementation; with it unset no wrapped call aborts, and
\* decision and results do not depend on the verbosity flag.
C8_Original ==
    Done =>
      /\ g_abort_on_slow => NEv(LibcCalls) = 0
      /\ ~g_abort_on_slow => ~aborted
      /\ VerbosityIndependent

\* C8 (amended): with the strictness flag set, no wrapped stat-family or
\* ownership-change call ever forwards to the true implementation (each
\* completes on the fast path, fails at once with its validation error, or
\* aborts), while a permission-change call never aborts and, without
\* AT_SYMLINK_NOFOLLOW, is still forwarded; with the flag unset no wrapped
\* call aborts; decision and results do not depend on the verbosity flag.
C8_StrictMode ==
    Done =>
      /\ (g_abort_on_slow /\ last.op # "fchmodat")
         => /\ NEv(LibcCalls) = 0
            /\ aborted \/ OnFastPath \/ FailedValidation
            /\ aborted => ~OnFastPath /\ last.log[Len(last.log)].ev = "abort"
      /\ (g_abort_on_slow /\ last.op = "fchmodat")
         => /\ ~aborted
            /\ IF AT_SYMLINK_NOFOLLOW \in last.flags THEN FailedValidation
               ELSE NEv(LibcCalls) = 1
      /\ ~g_abort_on_slow => ~aborted
      /\ VerbosityIndependent

\* in strict mode a stat of a marked file aborted the process after the
\* probe, without forwarding
C8_Witness ==
    /\ Done /\ IsStat(last) /\ g_abort_on_slow /\ aborted
    /\ last.target = "a" /\ last.pre.marker["a"]
    /\ NEv({"getxattr"}) = 1
    /\ NEv(LibcCalls) = 0

\* C9: a stat-family call with a null path or null result buffer, and an
\* ownership-change call with a null path, fails at once with EFAULT and
\* nothing is attempted: no probe, no clear, no syscall, no forward, no
\* abort (strict mode included), no change of markers, ownership or
\* descriptors.
C9_NullArguments ==
    (Done /\ \/ IsStat(last) /\ (last.pathname.null \/ ~last.buf)
             \/ IsChown(last) /\ last.pathname.null)
    => /\ last.ret = -1
       /\ errno = EFAULT
       /\ last.log = <<>>
       /\ last.chk = <<>>
       /\ ~aborted
       /\ marker = last.pre.marker
       /\ owner = last.pre.owner
       /\ fds = last.pre.fds

\* in strict mode a stat of a marked file with a null result buffer failed
\* with EFAULT instead of aborting
C9_Witness ==
    /\ Done /\ IsStat(last) /\ ~last.buf /\ ~last.pathname.null
    /\ g_abort_on_slow /\ ~aborted
    /\ last.target = "a" /\ marker["a"]
    /\ last.pre.errno = OK /\ errno = EFAULT /\ last.ret = -1

\* why reading the marker of the call's target fails, if it does
TargetProbeErr ==
    LET r == Lookup(last.dirfd, last.pathname,
                    AT_SYMLINK_NOFOLLOW \notin last.flags,
                    AT_EMPTY_PATH \in last.flags, last.pre.fds)
    IN IF last.fault = EMFILE THEN EMFILE
       ELSE IF r.err # OK THEN r.err
       ELSE XattrGetErr(r.ino, last.pre.marker)

\* C10: for every addressing form (absolute or current-directory-relative
\* path, directory handle plus relative name, open handle with empty path)
\* the probe yields 'no overlay' (fast path) when it fails because the
\* attribute is absent, the namespace is unsupported, the target is missing
\* or a path component is not a directory, and 'overlay may exist' (slow
\* path) when the marker is present or the probe fails otherwise.
C10_ProbeClassification ==
    ValidStat =>
      (NKeyed(StatSyscalls) = 1
         <=> TargetProbeErr \in {ENODATA, ENOTSUP, ENOENT, ENOTDIR})

(***************************************************************************)
(* The identity the marker is read and cleared on                           *)
(***************************************************************************)
\* the objects the calls named in S were made on, in the call's log
ObjsOf(S) == {last.log[k].obj : k \in {j \in 1 .. Len(last.log) :
                                         last.log[j].ev \in S}}

\* C11: in every stat-family call that passed the NULL checks, for every
\* directory handle, path and flags, the file whose marker the probe reads
\* is the file the call addresses, and the fast path is never taken while
\* the addressed file carries a marker.
C11_ProbeReadsAddressedFile ==
    ValidStat =>
      /\ ObjsOf({"getxattr"}) \subseteq {last.target}
      /\ (NKeyed(StatSyscalls) = 1 /\ last.target # NONE)
           => ~last.pre.marker[last.target]

\* C12: a wrapped call changes no marker but that of the file it addresses
\* (for a no-follow call on a symbolic link, the link itself), which only
\* an ownership-change call may remove; stat-family and permission-change
\* calls change no marker.
C12_ClearTouchesOnlyAddressedFile ==
    Done => \A i \in Inodes :
              marker[i] # last.pre.marker[i]
                => IsChown(last) /\ i = last.target /\ ~marker[i]

(***************************************************************************)
(* Temporary handles                                                        *)
(***************************************************************************)
\* the decimal names of the handles the caller held when the call was made
CallerFdNames == {ToString(fd) : fd \in DOMAIN last.pre.fds}

\* C13: at the return (or abort) of every wrapped call the handles open are
\* the handles that were open when it was called, with what they refer to:
\* every temporary handle the call opened has been closed, whether the
\* probe or the clear succeeded or failed and whichever path was taken, and
\* no handle of the caller was closed.
C13_TemporaryHandlesReleased ==
    Done =>
      /\ fds = last.pre.fds
      /\ ObjsOf({"close"}) \cap CallerFdNames = {}
      /\ NEv({"close"}) = Cardinality({k \in 1 .. Len(last.log) :
                                         /\ last.log[k].ev = "openat"
                                         /\ last.log[k].obj # NONE})

\* a forwarded ownership change whose temporary handle was opened, whose
\* clear failed, and whose close reported an error
C13_Witness ==
    /\ Done /\ IsChown(last) /\ last.fault = EIO
    /\ NEv({"openat"}) = 1 /\ NEv({"close"}) = 1
    /\ NEv({"libc_fchownat"}) = 1
    /\ fds = last.pre.fds

(***************************************************************************)
(* Threads.  Each thread makes its first wrapped call, stat("a", &st) or    *)
(* chown("a", uid, gid), one step at a time: pthread_once and do_init, then *)
(* the probe (or the ownership match and the clear), then the fast-path or  *)
(* forwarded call.  The tracer acts between any two steps.  The calls ask   *)
(* for uid = gid; "a" is owned by 1:1.                                      *)
(***************************************************************************)
ThrDirfd == AT_FDCWD
ThrPath == Rel(<<"a">>)
ThrFlags == {}
ThrTarget == Target(ThrDirfd, ThrPath, ThrFlags)

\* the machine state thread t runs on: errno is the thread's own
ThrMachine(t) == [errno |-> threads[t].errno, fds |-> fds, marker |-> marker,
                  owner |-> owner, aborted |-> FALSE, log |-> <<>>,
                  chk |-> <<>>]

\* the globals as a thread reads them now
ThrGlobals == [verbose |-> g_verbose, abort_on_slow |-> g_abort_on_slow,
               libc |-> g_libc]

ThrAt(t, where) == ~aborted /\ threads[t].pc = where

\* thread t goes to pc `to`, its record changed to r
ThrGoto(t, to, r) == threads' = [threads EXCEPT ![t] = [r EXCEPT !.pc = to]]

\* what the kernel and the thread keep of the machine state m
ThrLeaves(m) ==
    /\ fds' = m.fds
    /\ marker' = m.marker
    /\ owner' = m.owner
    /\ aborted' = m.aborted

\* an entry point that goes to its wrapped logic without ensure_init()
thr_enter_noinit ==
    \E t \in Threads, op \in {"stat", "chown"}, uid \in Ids, gid \in Ids :
      /\ ThrAt(t, "idle")
      /\ op = "stat" => uid = 0
      /\ gid = uid
      /\ ThrGoto(t, "wrap", [threads[t] EXCEPT !.op = op, !.uid = uid,
                                                !.gid = gid])
      /\ UNCHANGED <<g_init_flag, g_verbose, g_abort_on_slow, g_libc, environ,
                     errno, fds, marker, owner, aborted, pc, last, init_runs>>

\* __fakefs_stat / __fakefs_chown is entered: ensure_init() comes first
thr_enter ==
    \E t \in Threads, op \in {"stat", "chown"}, uid \in Ids, gid \in Ids :
      /\ ThrAt(t, "idle")
      /\ op = "stat" => uid = 0
      /\ gid = uid
      /\ ThrGoto(t, "ensure_init", [threads[t] EXCEPT !.op = op, !.uid = uid,
                                                       !.gid = gid])
      /\ UNCHANGED <<g_init_flag, g_verbose, g_abort_on_slow, g_libc, environ,
                     errno, fds, marker, owner, aborted, pc, last, init_runs>>

\* pthread_once(&g_init_flag, do_init): the first caller runs do_init, a
\* caller that finds it in progress waits, a later caller goes on
thr_pthread_once ==
    \E t \in Threads :
      /\ ThrAt(t, "ensure_init")
      /\ g_init_flag # "RUNNING"
      /\ IF g_init_flag = "INIT"
         THEN /\ g_init_flag' = "RUNNING"
              /\ init_runs' = init_runs + 1
              /\ ThrGoto(t, "do_init_verbose", threads[t])
         ELSE /\ ThrGoto(t, "wrap", threads[t])
              /\ UNCHANGED <<g_init_flag, init_runs>>
      /\ UNCHANGED <<g_verbose, g_abort_on_slow, g_libc, environ, errno, fds,
                     marker, owner, aborted, pc, last>>

\* g_verbose = getenv("FAKEFS_VERBOSE") != NULL
thr_do_init_verbose ==
    \E t \in Threads :
      /\ ThrAt(t, "do_init_verbose")
      /\ g_verbose' = do_init(environ).verbose
      /\ ThrGoto(t, "do_init_abort_on_slow", threads[t])
      /\ UNCHANGED <<g_init_flag, g_abort_on_slow, g_libc, environ, errno, fds,
                     marker, owner, aborted, pc, last, init_runs>>

\* g_abort_on_slow = getenv("FAKEFS_ABORT_ON_SLOW") != NULL
thr_do_init_abort_on_slow ==
    \E t \in Threads :
      /\ ThrAt(t, "do_init_abort_on_slow")
      /\ g_abort_on_slow' = do_init(environ).abort_on_slow
      /\ ThrGoto(t, "do_init_libc", threads[t])
      /\ UNCHANGED <<g_init_flag, g_verbose, g_libc, environ, errno, fds,
                     marker, owner, aborted, pc, last, init_runs>>

\* g_libc_* = dlsym(RTLD_NEXT, ...)
thr_do_init_libc ==
    \E t \in Threads :
      /\ ThrAt(t, "do_init_libc")
      /\ g_libc' = do_init(environ).libc
      /\ ThrGoto(t, "once_return", threads[t])
      /\ UNCHANGED <<g_init_flag, g_verbose, g_abort_on_slow, environ, errno,
                     fds, marker, owner, aborted, pc, last, init_runs>>

\* do_init has returned: pthread_once marks the flag and lets the waiters go
thr_once_return ==
    \E t \in Threads :
      /\ ThrAt(t, "once_return")
      /\ g_init_flag' = "DONE"
      /\ ThrGoto(t, "wrap", threads[t])
      /\ UNCHANGED <<g_verbose, g_abort_on_slow, g_libc, environ, errno, fds,
                     marker, owner, aborted, pc, last, init_runs>>

\* wrap_fstatat up to the decision: has_no_override(dirfd, pathname, flags)
thr_probe ==
    \E t \in Threads :
      /\ ThrAt(t, "wrap") /\ threads[t].op = "stat"
      /\ \E h \in {has_no_override(ThrMachine(t), ThrDirfd, ThrPath, ThrFlags,
                                   NoFault)} :
           /\ ThrGoto(t, "decided",
                      [threads[t] EXCEPT !.val = h.val,
                                         !.before = marker[ThrTarget],
                                         !.errno = h.m.errno])
           /\ ThrLeaves(h.m)
      /\ UNCHANGED <<g_init_flag, g_verbose, g_abort_on_slow, g_libc, environ,
                     errno, pc, last, init_runs>>

\* wrap_fstatat after the decision: backdoor_fstatat, abort or g_libc_fstatat
thr_stat ==
    \E t \in Threads :
      /\ ThrAt(t, "decided")
      /\ \E r \in {IF threads[t].val
                   THEN backdoor_fstatat(Logged(ThrGlobals, ThrMachine(t)),
                                         ThrDirfd, ThrPath, TRUE, ThrFlags)
                   ELSE IF ThrGlobals.abort_on_slow
                   THEN Aborted(ThrMachine(t), "ABORT-ON-SLOW")
                   ELSE g_libc_fstatat(ThrMachine(t), ThrDirfd, ThrPath, TRUE,
                                       ThrFlags)} :
           /\ ThrGoto(t, "ret",
                      [threads[t] EXCEPT !.fast = threads[t].val,
                                         !.at = marker[ThrTarget],
                                         !.errno = r.m.errno])
           /\ ThrLeaves(r.m)
      /\ UNCHANGED <<g_init_flag, g_verbose, g_abort_on_slow, g_libc, environ,
                     errno, pc, last, init_runs>>

\* wrap_fchownat: matches_original_ownership(dirfd, pathname, flags, uid, gid)
thr_match ==
    \E t \in Threads :
      /\ ThrAt(t, "wrap") /\ threads[t].op = "chown"
      /\ \E mo \in {matches_original_ownership(ThrMachine(t), ThrDirfd,
                       ThrPath, ThrFlags, threads[t].uid, threads[t].gid)} :
           /\ ThrGoto(t, "matched",
                      [threads[t] EXCEPT !.val = mo.val,
                                         !.before = marker[ThrTarget],
                                         !.errno = mo.m.errno])
           /\ ThrLeaves(mo.m)
      /\ UNCHANGED <<g_init_flag, g_verbose, g_abort_on_slow, g_libc, environ,
                     errno, pc, last, init_runs>>

\* wrap_fchownat: && clear_override(dirfd, pathname, flags)
thr_clear ==
    \E t \in Threads :
      /\ ThrAt(t, "matched")
      /\ \E c \in {IF threads[t].val
                   THEN clear_override(ThrMachine(t), ThrDirfd, ThrPath,
                                       ThrFlags, NoFault)
                   ELSE [val |-> FALSE, m |-> ThrMachine(t)]} :
           /\ ThrGoto(t, "cleared",
                      [threads[t] EXCEPT !.val = c.val,
                                         !.at = threads[t].val
                                                  /\ marker[ThrTarget],
                                         !.errno = c.m.errno])
           /\ ThrLeaves(c.m)
      /\ UNCHANGED <<g_init_flag, g_verbose, g_abort_on_slow, g_libc, environ,
                     errno, pc, last, init_runs>>

\* wrap_fchownat after the decision: backdoor_fchownat, abort or
\* g_libc_fchownat
thr_chown ==
    \E t \in Threads :
      /\ ThrAt(t, "cleared")
      /\ \E r \in {IF threads[t].val
                   THEN backdoor_fchownat(Logged(ThrGlobals, ThrMachine(t)),
                                          ThrDirfd, ThrPath, threads[t].uid,
                                          threads[t].gid, ThrFlags)
                   ELSE IF ThrGlobals.abort_on_slow
                   THEN Aborted(ThrMachine(t), "ABORT-ON-SLOW")
                   ELSE g_libc_fchownat(ThrMachine(t), ThrDirfd, ThrPath,
                                        threads[t].uid, threads[t].gid,
                                        ThrFlags)} :
           /\ ThrGoto(t, "ret",
                      [threads[t] EXCEPT !.fast = threads[t].val,
                                         !.errno = r.m.errno])
           /\ ThrLeaves(r.m)
      /\ UNCHANGED <<g_init_flag, g_verbose, g_abort_on_slow, g_libc, environ,
                     errno, pc, last, init_runs>>

\* the tracer installs an overlay on the file the threads address, at any
\* moment
thr_tracer_set ==
    /\ ~aborted
    /\ ~marker[ThrTarget]
    /\ marker' = [marker EXCEPT ![ThrTarget] = TRUE]
    /\ UNCHANGED <<g_init_flag, g_verbose, g_abort_on_slow, g_libc, environ,
                   errno, fds, owner, aborted, pc, last, threads, init_runs>>

NextThreads ==
    \/ thr_enter
    \/ thr_pthread_once
    \/ thr_do_init_verbose
    \/ thr_do_init_abort_on_slow
    \/ thr_do_init_libc
    \/ thr_once_return
    \/ thr_probe
    \/ thr_stat
    \/ thr_match
    \/ thr_clear
    \/ thr_chown
    \/ thr_tracer_set

SpecThreads == Init /\ [][NextThreads]_vars

(***************************************************************************)
(* Initialisation under concurrent first calls                              *)
(***************************************************************************)
\* where a thread is once ensure_init() has returned
WrappedPcs == {"wrap", "decided", "matched", "cleared", "ret"}

\* do_init has been entered at most once, and a thread that is in (or has
\* left) its wrapped logic finds the initialisation complete
InitDoneBeforeLogic ==
    /\ init_runs <= 1
    /\ \A t \in Threads :
         threads[t].pc \in WrappedPcs
           => /\ g_init_flag = "DONE"
              /\ init_runs = 1
              /\ ThrGlobals = do_init(environ)

\* once the initialisation is complete the flag, the table and the flags
\* keep their values
InitNeverRewritten ==
    g_init_flag = "DONE"
      => UNCHANGED <<g_init_flag, g_verbose, g_abort_on_slow, g_libc>>

\* C14: under any interleaving of threads making their first wrapped calls,
\* do_init runs exactly once, no thread is in its wrapped logic or reads the
\* implementation table or the flags before do_init has completed, and the
\* table and the flags are not written afterwards.
C14_InitExactlyOnce == [] InitDoneBeforeLogic /\ [][InitNeverRewritten]_vars

\* one thread is inside do_init while another waits in pthread_once
C14_Witness ==
    \E t \in Threads, u \in Threads :
      /\ t # u
      /\ threads[t].pc = "do_init_abort_on_slow"
      /\ threads[u].pc = "ensure_init"
      /\ g_init_flag = "RUNNING"
      /\ init_runs = 1

(***************************************************************************)
(* The decision and the tracer                                              *)
(***************************************************************************)
\* C15: no fast-path stat syscall runs on a file at a moment when the file
\* carries a marker, and a fast-path ownership change removes no marker that
\* was installed after the call began.
C15_DecisionAtomic ==
    \A t \in Threads :
      threads[t].pc = "ret" /\ threads[t].fast
        => /\ threads[t].op = "stat" => ~threads[t].at
           /\ (threads[t].op = "chown" /\ threads[t].at) => threads[t].before
====
